---- MODULE Spec2Model ----
(***************************************************************************)
(* MCP Storybook Image Generator: the tool handler of src/src/index.ts,    *)
(* its helpers (generateStory, saveStoryWithProperPath,                    *)
(* saveImageWithProperPath, openInBrowser) and the launchers (run.mjs,     *)
(* run.js, cli.ts).                                                        *)
(*                                                                         *)
(* Strings are sequences of non-empty pieces: <<>> is the empty string,    *)
(* \o is concatenation.  A thrown value is a record: isError says whether  *)
(* it is an instance of Error, text is its message (or String(value) for   *)
(* a value that is no Error).                                              *)
(***************************************************************************)
EXTENDS Integers, Sequences, FiniteSets, TLC

VARIABLES
    procEnv,        \* process.env of the server process (the variables the code reads)
    pc,             \* position of the CallTool handler
    inv,            \* number of tool invocations received so far
    tool,           \* request.params.name
    args,           \* request.params.arguments
    story,          \* const story (index.ts:353)
    storyPath,      \* savedPath of the story (index.ts:357)
    imgSeen,        \* chunks of the image stream consumed by the for-await loop
    outputFileName, \* index.ts:392
    savedPath,      \* savedPath of the image (index.ts:397)
    htmlPath,       \* index.ts:435
    response,       \* what the handler returned or threw
    log,            \* outward effects of the current invocation, in order
    files,          \* files on disk: [path, by] (by = invocation that wrote it last)
    prev,           \* history: the previous invocation's file name and paths, if it succeeded
    upstream,       \* SpecStory: the behaviour of the story stream
    result,         \* SpecStory: what generateStory returned
    boot            \* SpecBoot: the launcher's and the server's start-up state

vars == <<procEnv, pc, inv, tool, args, story, storyPath, imgSeen, outputFileName,
          savedPath, htmlPath, response, log, files, prev, upstream, result, boot>>

handlerVars == <<procEnv, pc, inv, tool, args, story, storyPath, imgSeen, outputFileName,
                 savedPath, htmlPath, response, log, files, prev>>

\* ------------------------------------------------------------------ bounds

MaxInvocations == 2
MaxStoryChunks == 2
MaxServedChunks == 1
MaxImageChunks == 2
MaxTime == 2

\* ------------------------------------------------------------------ values

\* s contains t as a contiguous part
Contains(s, t) ==
    \E i \in 1..(Len(s) - Len(t) + 1) : SubSeq(s, i, i + Len(t) - 1) = t

\* a thrown Error instance with this message
Err(m) == [isError |-> TRUE, isMcp |-> FALSE, text |-> m]

\* a thrown value that is no Error instance; String(value) = m
NonErr(m) == [isError |-> FALSE, isMcp |-> FALSE, text |-> m]

\* error instanceof Error ? error.message : String(error)
MessageOf(e) == e.text

\* new McpError(ErrorCode.InternalError, m): an Error whose message the SDK
\* prefixes with the code
McpError(m) ==
    [isError |-> TRUE, isMcp |-> TRUE, code |-> "InternalError",
     text |-> <<"MCP error InternalError: ">> \o m]

\* reading a property of undefined
TypeError(what) == Err(<<"Cannot read properties of undefined (reading '", what, "')">>)

\* what the provider's request or stream may throw
UpstreamErrors == {Err(<<"quota exceeded">>), NonErr(<<"aborted">>)}

\* ------------------------------------------------------------------ generateStory

\* chunks of a provider stream, by what the loops read of them
NoCandidates == [candidates |-> "undefined"]
EmptyCandidates == [candidates |-> "empty"]
TextChunk(t) == [candidates |-> "parts", part |-> [text |-> t]]
InlineChunk(d) == [candidates |-> "parts", part |-> [inlineData |-> [data |-> d]]]

\* a chunk whose content has two parts: part is parts[0], second is parts[1]
TwoPartChunk(first, second) == [candidates |-> "parts", part |-> first, second |-> second]

Fragments == {<<>>, <<"A">>, <<"B">>}

StoryChunks ==
    {NoCandidates, EmptyCandidates, InlineChunk("I1")} \cup {TextChunk(t) : t \in Fragments}
    \cup {TwoPartChunk([text |-> <<"A">>], [text |-> <<"B">>])}

RECURSIVE SeqsUpTo(_, _)
SeqsUpTo(S, n) ==
    IF n = 0 THEN {<<>>}
    ELSE LET shorter == SeqsUpTo(S, n - 1)
         IN  shorter \cup {Append(s, x) : s \in {t \in shorter : Len(t) = n - 1}, x \in S}

\* the behaviours of the story request whose stream yields at most n chunks: the
\* request throws, or the stream yields chunks and then ends or throws
UpstreamsUpTo(n) ==
    {[kind |-> "requestThrows", error |-> e] : e \in UpstreamErrors}
    \cup {[kind |-> "ends", chunks |-> c] : c \in SeqsUpTo(StoryChunks, n)}
    \cup {[kind |-> "streamThrows", chunks |-> c, error |-> e] :
            c \in SeqsUpTo(StoryChunks, n), e \in UpstreamErrors}

StoryUpstreams == UpstreamsUpTo(MaxStoryChunks)

FixedFallback == <<"Once upon a time... (Story generation failed, but the image has been created)">>

ErrorFallback(e) == <<"Once upon a time... (Story generation failed: ">> \o MessageOf(e) \o <<")">>

\* the for-await loop of generateStory over the chunks the stream yields:
\* the text collected, or the value thrown while reading a chunk
RECURSIVE CollectText(_, _)
CollectText(chunks, storyText) ==
    IF chunks = <<>> THEN [threw |-> FALSE, text |-> storyText]
    ELSE LET chunk == Head(chunks)
         IN  IF chunk.candidates = "undefined" THEN CollectText(Tail(chunks), storyText)
             ELSE IF chunk.candidates = "empty"
                  THEN [threw |-> TRUE, error |-> TypeError("content")]
             ELSE IF "text" \in DOMAIN chunk.part
                  THEN CollectText(Tail(chunks), storyText \o chunk.part.text)
             ELSE CollectText(Tail(chunks), storyText)

StoryOrFallbackMutant(storyText) == storyText

\* storyText || "Once upon a time... (...)"
StoryOrFallback(storyText) == IF storyText = <<>> THEN FixedFallback ELSE storyText

generateStory(up) ==
    IF up.kind = "requestThrows" THEN ErrorFallback(up.error)
    ELSE LET got == CollectText(up.chunks, <<>>)
         IN  IF got.threw THEN ErrorFallback(got.error)
             ELSE IF up.kind = "streamThrows" THEN ErrorFallback(up.error)
             ELSE StoryOrFallback(got.text)

\* ------------------------------------------------------------------ SpecStory

NoUpstream == [kind |-> "none"]

NotReturned == [returned |-> FALSE]

\* generateStory applied to one behaviour of the upstream
CallGenerateStory ==
    /\ upstream.kind # "none"
    /\ ~result.returned
    /\ result' = [returned |-> TRUE, value |-> generateStory(upstream)]
    /\ UNCHANGED <<upstream, handlerVars, boot>>

\* ------------------------------------------------------------------ paths and names

Extensions == {".png", ".jpg"}

Last(s) == s[Len(s)]

\* fileName.replace(/\.[^/.]+$/, '')
StripExtension(f) ==
    IF Len(f) > 0 /\ Last(f) \in Extensions THEN SubSeq(f, 1, Len(f) - 1) ELSE f

\* fileName.endsWith('.png')
EndsWithPng(f) == Len(f) > 0 /\ Last(f) = ".png"

\* outputFileName.replace('.png', ''): the first occurrence is removed
RECURSIVE RemoveFirstPng(_)
RemoveFirstPng(f) ==
    IF f = <<>> THEN <<>>
    ELSE IF Head(f) = ".png" THEN Tail(f)
    ELSE <<Head(f)>> \o RemoveFirstPng(Tail(f))

\* new Date().toISOString().replace(/[:.]/g, '-')
Timestamp(t) == <<"T" \o ToString(t)>>

getDesktopPath == "<desktop>"

DesktopSaveDir == getDesktopPath \o "/storybook-images"
LocalSaveDir == "<cwd>/storybook-images"
FallbackDir == "<cwd>/output"

\* path.join(dir, name)
Join(dir, name) == [dir |-> dir, name |-> name]

NoPath == [dir |-> "", name |-> <<>>]

\* ------------------------------------------------------------------ file system

\* how one save attempt (ensureDirectoryExists, then writeFileSync) may go: both
\* calls return, or one of them throws
Outcomes == {"ok", "throws"}

WriteError == Err(<<"EACCES: permission denied">>)

\* fs.writeFileSync(path, ...) by invocation n on the files fs
WriteFile(fs, path, n) == {f \in fs : f.path # path} \cup {[path |-> path, by |-> n]}

\* ensureDirectoryExists(dir) then fs.writeFileSync(path.join(dir, name), ...) on the
\* files fs, with outcome o: the files afterwards, what was thrown, and the attempt
\* as the log records it
Attempt(fs, kind, dir, name, o, n) ==
    [threw |-> o = "throws",
     error |-> WriteError,
     files |-> IF o = "throws" THEN fs ELSE WriteFile(fs, Join(dir, name), n),
     entry |-> [op |-> "attempt", kind |-> kind, dir |-> dir, name |-> name,
                ok |-> o # "throws"]]

PrimaryDirMutant == LocalSaveDir

\* process.env.SAVE_TO_DESKTOP === "true" ? desktop directory : server directory
PrimaryDir == IF procEnv.SAVE_TO_DESKTOP = "true" THEN DesktopSaveDir ELSE LocalSaveDir

NoFallbackMutant(fs, kind, name, o1, o2, n) ==
    LET first == Attempt(fs, kind, PrimaryDir, name, o1, n)
    IN  [threw |-> first.threw, error |-> first.error, files |-> first.files,
         savedPath |-> Join(PrimaryDir, name), entries |-> <<first.entry>>]

\* the body shared by saveStoryWithProperPath and saveImageWithProperPath: the try
\* block saves under the primary directory, the catch block under the fallback one
SaveWithProperPath(fs, kind, name, o1, o2, n) ==
    LET first == Attempt(fs, kind, PrimaryDir, name, o1, n)
        second == Attempt(first.files, kind, FallbackDir, name, o2, n)
    IN  IF ~first.threw
        THEN [threw |-> FALSE, error |-> first.error, files |-> first.files,
              savedPath |-> Join(PrimaryDir, name), entries |-> <<first.entry>>]
        ELSE [threw |-> second.threw, error |-> second.error, files |-> second.files,
              savedPath |-> Join(FallbackDir, name),
              entries |-> <<first.entry, second.entry>>]

saveStoryWithProperPath(fs, name, o1, o2, n) == SaveWithProperPath(fs, "story", name, o1, o2, n)

saveImageWithProperPath(fs, name, o1, o2, n) == SaveWithProperPath(fs, "image", name, o1, o2, n)

\* the outcomes of the two attempts (the fallback's outcome matters only when the
\* primary attempt threw)
SaveOutcomes == {o \in Outcomes \X Outcomes : o[1] = "ok" => o[2] = "ok"}

\* ------------------------------------------------------------------ the tool handler

ToolName == "generate_storybook_image"

ToolNames == {ToolName, "other_tool"}

\* the enum of inputSchema.artStyle
ArtStyleEnum == {"3d cartoon", "watercolor", "pixel art", "hand drawn", "claymation"}

Prompts == {<<"a dragon learns to share">>}
FileNames == {<<"dragon1">>, <<"dragon1", ".png">>}
ArtStyles == {"oil painting"}

\* request.params.arguments: an object with any of the three properties, or undefined
NoArguments == [undefinedArguments |-> TRUE]

\* an object with property k, for each value of S, or without it
Optional(k, S) == {<<>>} \cup {k :> v : v \in S}

Arguments ==
    {NoArguments}
    \cup {p @@ f @@ a : p \in Optional("prompt", Prompts),
                        f \in Optional("fileName", FileNames),
                        a \in Optional("artStyle", ArtStyles)}

Has(a, k) == k \in DOMAIN a

\* `${prompt}` in the two template strings
PromptText(a) == IF Has(a, "prompt") THEN a.prompt ELSE <<"undefined">>

\* const { artStyle = "3d cartoon" } = args
ArtStyleOf(a) == IF Has(a, "artStyle") THEN a.artStyle ELSE "3d cartoon"

\* the image prompt, by its two inserted values (index.ts:360)
ImagePrompt(a) == [style |-> ArtStyleOf(a), scene |-> PromptText(a)]

NoResponse == [kind |-> "none"]

\* the previous invocation, when it ended in success
NoPrevious == [succeeded |-> FALSE]

InnerCatchMutant(e) == McpError(<<"An unknown error occurred">>)

\* the catch block of the image part (index.ts:467-473)
InnerCatch(e) ==
    IF e.isError THEN McpError(<<"Failed to generate image: ">> \o e.text)
    ELSE McpError(<<"An unknown error occurred">>)

\* the catch block of the handler (index.ts:477-486)
OuterCatch(e) ==
    IF e.isMcp THEN e
    ELSE McpError(<<"Error processing request: ">> \o MessageOf(e))

ErrorResponseMutant(e) ==
    [kind |-> "error", code |-> e.code, message |-> e.text, storyPath |-> storyPath]

\* the protocol error the caller receives for a McpError the handler threw
ErrorResponse(e) == [kind |-> "error", code |-> e.code, message |-> e.text]

\* e was thrown in the inner or the outer try block
Threw(e, where) == [op |-> "threw", error |-> e, where |-> where]

\* the handler ends by throwing e from the outer try block
FailOuter(e, entries) ==
    /\ response' = ErrorResponse(OuterCatch(e))
    /\ log' = log \o entries \o <<Threw(e, "outer")>>
    /\ pc' = "done"

\* the handler ends by throwing e from the inner try block
FailInner(e, entries) ==
    /\ response' = ErrorResponse(OuterCatch(InnerCatch(e)))
    /\ log' = log \o entries \o <<Threw(e, "inner")>>
    /\ pc' = "done"

\* a request arrives while no invocation is in progress; the handler runs up to its
\* first call
CallTool ==
    /\ pc \in {"idle", "done"}
    /\ inv < MaxInvocations
    /\ \E t \in ToolNames, a \in Arguments :
        /\ inv' = inv + 1
        /\ tool' = t
        /\ args' = a
        /\ story' = <<>>
        /\ storyPath' = NoPath
        /\ imgSeen' = <<>>
        /\ outputFileName' = <<>>
        /\ savedPath' = NoPath
        /\ htmlPath' = NoPath
        /\ IF t # ToolName
           THEN /\ response' = ErrorResponse(OuterCatch(McpError(<<"Unknown tool: ", t>>)))
                /\ log' = <<Threw(McpError(<<"Unknown tool: ", t>>), "outer")>>
                /\ pc' = "done"
           ELSE IF a = NoArguments
           THEN /\ response' = ErrorResponse(OuterCatch(TypeError("prompt")))
                /\ log' = <<Threw(TypeError("prompt"), "outer")>>
                /\ pc' = "done"
           ELSE /\ response' = NoResponse
                /\ log' = <<>>
                /\ pc' = "generateStory"
    /\ prev' = IF response.kind = "result"
               THEN [succeeded |-> TRUE, fileName |-> args.fileName,
                     outputFileName |-> outputFileName, savedPath |-> savedPath,
                     storyPath |-> storyPath]
               ELSE NoPrevious
    /\ UNCHANGED <<procEnv, files, upstream, result, boot>>

\* const story = await generateStory(prompt)
GenerateStory ==
    /\ pc = "generateStory"
    /\ \E up \in UpstreamsUpTo(MaxServedChunks) : story' = generateStory(up)
    /\ log' = Append(log, [op |-> "storyRequest", prompt |-> PromptText(args)])
    /\ pc' = "saveStory"
    /\ UNCHANGED <<procEnv, inv, tool, args, storyPath, imgSeen, outputFileName, savedPath,
                   htmlPath, response, files, prev, upstream, result, boot>>

\* `${fileName.replace(/\.[^/.]+$/, '')}_story.txt`
StoryFileName(fileName) == StripExtension(fileName) \o <<"_story.txt">>

\* storyFileName, then await saveStoryWithProperPath(story, storyFileName)
SaveStory ==
    /\ pc = "saveStory"
    /\ IF ~Has(args, "fileName")
       THEN /\ FailOuter(TypeError("replace"), <<>>)
            /\ UNCHANGED <<storyPath, files>>
       ELSE \E o \in SaveOutcomes :
             LET saved == saveStoryWithProperPath(files, StoryFileName(args.fileName),
                                                  o[1], o[2], inv)
             IN  /\ files' = saved.files
                 /\ IF saved.threw
                    THEN /\ FailOuter(saved.error, saved.entries)
                         /\ UNCHANGED storyPath
                    ELSE /\ storyPath' = saved.savedPath
                         /\ log' = log \o saved.entries
                         /\ pc' = "imageRequest"
                         /\ UNCHANGED response
    /\ UNCHANGED <<procEnv, inv, tool, args, story, imgSeen, outputFileName, savedPath,
                   htmlPath, prev, upstream, result, boot>>

\* ------------------------------------------------------------------ the image part

\* the entries of the log made by operation op
Entries(op) == SelectSeq(log, LAMBDA x : x.op = op)

Payloads == {"I1"}

\* an inline part whose data property is absent
NoData == ""

ImageChunks ==
    {NoCandidates, EmptyCandidates, TextChunk(<<"A">>)}
    \cup {InlineChunk(d) : d \in Payloads}
    \cup {TwoPartChunk([text |-> <<"A">>], [inlineData |-> [data |-> d]]) : d \in Payloads}

\* Buffer.from(inlineData.data || '', 'base64')
Base64Decode(data) == IF data = NoData THEN <<>> ELSE <<"bytes of " \o data>>

HasInlineData(chunk) == chunk.candidates = "parts" /\ "inlineData" \in DOMAIN chunk.part

ImageRequestMutant ==
    /\ pc = "imageRequest"
    /\ \/ /\ log' = Append(log, [op |-> "imageRequest", prompt |-> ImagePrompt(args)])
          /\ pc' = "imageLoop"
          /\ UNCHANGED response
       \/ /\ Entries("imageRequest") = <<>>
          /\ log' = Append(log, [op |-> "imageRequest", prompt |-> ImagePrompt(args)])
          /\ UNCHANGED <<pc, response>>
       \/ \E e \in UpstreamErrors :
            FailInner(e, <<[op |-> "imageRequest", prompt |-> ImagePrompt(args)]>>)
    /\ UNCHANGED <<procEnv, inv, tool, args, story, storyPath, imgSeen, outputFileName,
                   savedPath, htmlPath, files, prev, upstream, result, boot>>

\* await genAI.models.generateContentStream({model: imageModel, ...})
ImageRequest ==
    /\ pc = "imageRequest"
    /\ \/ /\ log' = Append(log, [op |-> "imageRequest", prompt |-> ImagePrompt(args)])
          /\ pc' = "imageLoop"
          /\ UNCHANGED response
       \/ \E e \in UpstreamErrors :
            FailInner(e, <<[op |-> "imageRequest", prompt |-> ImagePrompt(args)]>>)
    /\ UNCHANGED <<procEnv, inv, tool, args, story, storyPath, imgSeen, outputFileName,
                   savedPath, htmlPath, files, prev, upstream, result, boot>>

\* the stream yields its next chunk to the for-await loop (index.ts:382-386)
ImageChunk ==
    /\ pc = "imageLoop"
    /\ Len(imgSeen) < MaxImageChunks
    /\ \E chunk \in ImageChunks :
        /\ imgSeen' = Append(imgSeen, chunk)
        /\ IF chunk.candidates = "empty"
           THEN FailInner(TypeError("content"), <<>>)
           ELSE /\ pc' = IF HasInlineData(chunk) THEN "saveImage" ELSE "imageLoop"
                /\ UNCHANGED <<response, log>>
    /\ UNCHANGED <<procEnv, inv, tool, args, story, storyPath, outputFileName, savedPath,
                   htmlPath, files, prev, upstream, result, boot>>

NoImageData == McpError(<<"No image data received from the API">>)

\* the stream ends: the loop is left and index.ts:466 throws inside the try block
ImageStreamEnds ==
    /\ pc = "imageLoop"
    /\ FailInner(NoImageData, <<[op |-> "streamEnd"]>>)
    /\ UNCHANGED <<procEnv, inv, tool, args, story, storyPath, imgSeen, outputFileName,
                   savedPath, htmlPath, files, prev, upstream, result, boot>>

\* the stream throws instead of yielding
ImageStreamThrows ==
    /\ pc = "imageLoop"
    /\ \E e \in UpstreamErrors : FailInner(e, <<>>)
    /\ UNCHANGED <<procEnv, inv, tool, args, story, storyPath, imgSeen, outputFileName,
                   savedPath, htmlPath, files, prev, upstream, result, boot>>

OutputFileNameMutant(fileName, t) ==
    IF EndsWithPng(fileName) THEN fileName ELSE fileName \o <<".png">>

\* fileName.endsWith('.png') ? fileName : `${fileName}_${timestamp}.png`
OutputFileName(fileName, t) ==
    IF EndsWithPng(fileName) THEN fileName
    ELSE fileName \o <<"_">> \o Timestamp(t) \o <<".png">>

\* the readings of the wall clock
Times == 0..(MaxTime - 1)

\* the chunk with the inline payload: buffer, timestamp, outputFileName, then
\* await saveImageWithProperPath(buffer, outputFileName) (index.ts:387-397)
SaveImage ==
    /\ pc = "saveImage"
    /\ \E t \in Times, o \in SaveOutcomes :
        LET buffer == Base64Decode(Last(imgSeen).part.inlineData.data)
            name == OutputFileName(args.fileName, t)
            saved == saveImageWithProperPath(files, name, o[1], o[2], inv)
            entries == [i \in 1..Len(saved.entries) |->
                          saved.entries[i] @@ [buffer |-> buffer]]
        IN  /\ outputFileName' = name
            /\ files' = saved.files
            /\ IF saved.threw
               THEN /\ FailInner(saved.error, entries)
                    /\ UNCHANGED savedPath
               ELSE /\ savedPath' = saved.savedPath
                    /\ log' = log \o entries
                    /\ pc' = "writePreview"
                    /\ UNCHANGED response
    /\ UNCHANGED <<procEnv, inv, tool, args, story, storyPath, imgSeen, htmlPath,
                   prev, upstream, result, boot>>

\* `${outputFileName.replace('.png', '')}_preview.html`
HtmlFileName(name) == RemoveFirstPng(name) \o <<"_preview.html">>

\* htmlContent, htmlFileName, htmlPath, ensureDirectoryExists, fs.writeFileSync
\* (index.ts:399-439)
WritePreview ==
    /\ pc = "writePreview"
    /\ \E o \in Outcomes :
        LET name == HtmlFileName(outputFileName)
            try == Attempt(files, "preview", savedPath.dir, name, o, inv)
        IN  /\ htmlPath' = Join(savedPath.dir, name)
            /\ files' = try.files
            /\ IF try.threw
               THEN FailInner(try.error, <<try.entry>>)
               ELSE /\ log' = Append(log, try.entry)
                    /\ pc' = "openInBrowser"
                    /\ UNCHANGED response
    /\ UNCHANGED <<procEnv, inv, tool, args, story, storyPath, imgSeen, outputFileName,
                   savedPath, prev, upstream, result, boot>>

Platforms == {"win32", "darwin", "linux"}

\* process.env.DISPLAY === undefined && platform is neither win32 nor darwin
Headless(display, platform) == ~display /\ platform # "win32" /\ platform # "darwin"

\* openInBrowser(filePath) where DISPLAY is set or not, on this platform, and the
\* external command succeeds or not: whether the call throws, and its effects
openInBrowser(display, platform, execOk) ==
    IF Headless(display, platform)
    THEN [threw |-> FALSE, entries |-> <<[op |-> "open", display |-> display, platform |-> platform]>>]
    ELSE [threw |-> FALSE,
          entries |-> <<[op |-> "open", display |-> display, platform |-> platform],
                        [op |-> "exec", ok |-> execOk]>>]

SuccessResponse ==
    [kind |-> "result", success |-> TRUE, imagePath |-> savedPath,
     storyPath |-> storyPath, htmlPath |-> htmlPath]

OpenAndReturnMutant ==
    /\ pc = "openInBrowser"
    /\ \E display \in BOOLEAN, platform \in Platforms, execOk \in BOOLEAN :
        LET opened == openInBrowser(display, platform, execOk)
        IN  /\ Headless(display, platform) => execOk
            /\ IF execOk
               THEN /\ log' = log \o opened.entries \o <<[op |-> "return"]>>
                    /\ response' = SuccessResponse
                    /\ pc' = "done"
               ELSE FailInner(Err(<<"spawn ENOENT">>), opened.entries)
    /\ UNCHANGED <<procEnv, inv, tool, args, story, storyPath, imgSeen, outputFileName,
                   savedPath, htmlPath, files, prev, upstream, result, boot>>

\* try { await openInBrowser(htmlPath) } catch {...}, then the return (index.ts:441-462)
OpenAndReturn ==
    /\ pc = "openInBrowser"
    /\ \E display \in BOOLEAN, platform \in Platforms, execOk \in BOOLEAN :
        LET opened == openInBrowser(display, platform, execOk)
        IN  /\ Headless(display, platform) => execOk
            /\ log' = log \o opened.entries \o <<[op |-> "return"]>>
            /\ response' = SuccessResponse
            /\ pc' = "done"
    /\ UNCHANGED <<procEnv, inv, tool, args, story, storyPath, imgSeen, outputFileName,
                   savedPath, htmlPath, files, prev, upstream, result, boot>>

\* ------------------------------------------------------------------ bootstrap

Launchers == {"run.mjs", "run.js", "cli.ts", "index.ts"}

Unset == "unset"

\* the command line: --api-key <key>, --save-to-desktop, --debug, --help
CommandLines ==
    [apiKey : {Unset, "cliKey"}, saveToDesktop : BOOLEAN, debug : BOOLEAN, help : BOOLEAN]

\* the environment the launched process starts with
Environments ==
    [GEMINI_API_KEY : {Unset, "envKey"}, SAVE_TO_DESKTOP : {Unset, "true", "false"},
     DEBUG : {Unset, "true", "false"}]

\* the .env file in the working directory
DotenvFiles ==
    [GEMINI_API_KEY : {Unset, "fileKey"}, SAVE_TO_DESKTOP : {Unset, "true"},
     DEBUG : {Unset, "true"}]

\* boolean.toString()
BoolString(b) == IF b THEN "true" ELSE "false"

\* parseArgs({args, options}).values: the boolean options have default false, so
\* they are never undefined
ParseArgs(argv) ==
    [apiKey |-> argv.apiKey,
     saveToDesktop |-> BoolString(argv.saveToDesktop),
     debug |-> BoolString(argv.debug),
     help |-> argv.help]

\* the env prepared for the child process (run.mjs:46-58, run.js:42-54)
ChildEnv(env, values) ==
    [GEMINI_API_KEY |-> IF values.apiKey # Unset THEN values.apiKey ELSE env.GEMINI_API_KEY,
     SAVE_TO_DESKTOP |-> IF values.saveToDesktop # Unset THEN values.saveToDesktop
                         ELSE env.SAVE_TO_DESKTOP,
     DEBUG |-> IF values.debug # Unset THEN values.debug ELSE env.DEBUG]

\* dotenv.config(): a variable of the file is set unless the process has it already
DotenvConfig(env, file) ==
    [k \in DOMAIN env |-> IF env[k] = Unset THEN file[k] ELSE env[k]]

\* the launcher exits with this code
Exit(code) ==
    /\ boot' = [boot EXCEPT !.phase = "exited", !.exitCode = code]
    /\ UNCHANGED procEnv

\* the body of run.mjs and of run.js: help, or the child's env and spawn
RunLauncher ==
    LET values == ParseArgs(boot.argv)
    IN  IF values.help THEN Exit("0")
        ELSE /\ procEnv' = ChildEnv(boot.env, values)
             /\ boot' = [boot EXCEPT !.phase = "index", !.serverArgvHelp = FALSE]

otherVars == <<pc, inv, tool, args, story, storyPath, imgSeen, outputFileName, savedPath,
               htmlPath, response, log, files, prev, upstream, result>>

RunMjs ==
    /\ boot.phase = "launch"
    /\ boot.launcher = "run.mjs"
    /\ RunLauncher
    /\ UNCHANGED otherVars

RunJs ==
    /\ boot.phase = "launch"
    /\ boot.launcher = "run.js"
    /\ RunLauncher
    /\ UNCHANGED otherVars

\* node build/index.js: the server module is the entry point
StartDirect ==
    /\ boot.phase = "launch"
    /\ boot.launcher = "index.ts"
    /\ procEnv' = boot.env
    /\ boot' = [boot EXCEPT !.phase = "index", !.serverArgvHelp = boot.argv.help]
    /\ UNCHANGED otherVars

\* cli.ts: its static import of './index.js' is evaluated before its own body, so
\* the server module runs first, with the environment as it was and no
\* __CLI_VALUES__
StartCli ==
    /\ boot.phase = "launch"
    /\ boot.launcher = "cli.ts"
    /\ procEnv' = boot.env
    /\ boot' = [boot EXCEPT !.phase = "index", !.serverArgvHelp = boot.argv.help]
    /\ UNCHANGED otherVars

\* cliApiKey || process.env.GEMINI_API_KEY
ApiKey(cliValues, env) ==
    IF cliValues.apiKey # Unset THEN cliValues.apiKey ELSE env.GEMINI_API_KEY

\* the top level of index.ts: dotenv, DEBUG, the API key and its check, the client,
\* the handlers, the transport (index.ts:19-58, 490-491)
IndexModule ==
    /\ boot.phase = "index"
    /\ LET env == DotenvConfig(procEnv, boot.dotenv)
           key == ApiKey(boot.cliValues, env)
       IN  /\ procEnv' = env
           /\ IF key = Unset /\ ~boot.serverArgvHelp
              THEN boot' = [boot EXCEPT !.phase = "exited", !.exitCode = "1",
                                        !.DEBUG = env.DEBUG = "true"]
              ELSE boot' = [boot EXCEPT
                              !.phase = IF boot.launcher = "cli.ts" THEN "cliBody"
                                        ELSE "serving",
                              !.DEBUG = env.DEBUG = "true",
                              !.API_KEY = key]
    /\ UNCHANGED otherVars

\* the body of cli.ts (cli.ts:7-65), run once the server module has been evaluated
CliBody ==
    /\ boot.phase = "cliBody"
    /\ LET values == ParseArgs(boot.argv)
       IN  IF values.help THEN Exit("0")
           ELSE /\ procEnv' =
                     [GEMINI_API_KEY |-> IF values.apiKey # Unset THEN values.apiKey
                                         ELSE procEnv.GEMINI_API_KEY,
                      SAVE_TO_DESKTOP |-> IF values.saveToDesktop = "true" THEN "true"
                                          ELSE "false",
                      DEBUG |-> IF values.debug = "true" THEN "true" ELSE "false"]
                /\ boot' = [boot EXCEPT !.phase = "serving",
                                        !.cliValues = [apiKey |-> values.apiKey]]
    /\ UNCHANGED otherVars

\* while the handler is modelled, the bootstrap is over
NotBooting == [phase |-> "serving"]

\* ------------------------------------------------------------------ specifications

Next ==
    \/ CallTool
    \/ GenerateStory
    \/ SaveStory
    \/ ImageRequest
    \/ ImageChunk
    \/ ImageStreamEnds
    \/ ImageStreamThrows
    \/ SaveImage
    \/ WritePreview
    \/ OpenAndReturn

Init ==
    /\ procEnv \in [GEMINI_API_KEY : {"envKey"}, SAVE_TO_DESKTOP : {"true", "false"},
                    DEBUG : {"false"}]
    /\ pc = "idle"
    /\ inv = 0
    /\ tool = ""
    /\ args = NoArguments
    /\ story = <<>>
    /\ storyPath = NoPath
    /\ imgSeen = <<>>
    /\ outputFileName = <<>>
    /\ savedPath = NoPath
    /\ htmlPath = NoPath
    /\ response = NoResponse
    /\ log = <<>>
    /\ files = {}
    /\ prev = NoPrevious
    /\ upstream = NoUpstream
    /\ result = NotReturned
    /\ boot = NotBooting

Spec == Init /\ [][Next]_vars

\* generateStory alone, over every behaviour of the upstream
InitStory ==
    /\ procEnv = [GEMINI_API_KEY |-> "envKey", SAVE_TO_DESKTOP |-> "false", DEBUG |-> "false"]
    /\ pc = "idle"
    /\ inv = 0
    /\ tool = ""
    /\ args = NoArguments
    /\ story = <<>>
    /\ storyPath = NoPath
    /\ imgSeen = <<>>
    /\ outputFileName = <<>>
    /\ savedPath = NoPath
    /\ htmlPath = NoPath
    /\ response = NoResponse
    /\ log = <<>>
    /\ files = {}
    /\ prev = NoPrevious
    /\ upstream \in StoryUpstreams
    /\ result = NotReturned
    /\ boot = NotBooting

NextStory == CallGenerateStory

SpecStory == InitStory /\ [][NextStory]_vars

\* the bootstrap alone, for every launcher, command line, environment and .env file
InitBoot ==
    /\ boot \in [phase : {"launch"}, launcher : Launchers, argv : CommandLines,
                 env : Environments, dotenv : DotenvFiles, serverArgvHelp : {FALSE},
                 cliValues : {[apiKey |-> Unset]}, DEBUG : {FALSE}, API_KEY : {Unset},
                 exitCode : {"none"}]
    /\ procEnv = [GEMINI_API_KEY |-> Unset, SAVE_TO_DESKTOP |-> Unset, DEBUG |-> Unset]
    /\ pc = "idle"
    /\ inv = 0
    /\ tool = ""
    /\ args = NoArguments
    /\ story = <<>>
    /\ storyPath = NoPath
    /\ imgSeen = <<>>
    /\ outputFileName = <<>>
    /\ savedPath = NoPath
    /\ htmlPath = NoPath
    /\ response = NoResponse
    /\ log = <<>>
    /\ files = {}
    /\ prev = NoPrevious
    /\ upstream = NoUpstream
    /\ result = NotReturned

NextBoot ==
    \/ RunMjs
    \/ RunJs
    \/ StartDirect
    \/ StartCli
    \/ IndexModule
    \/ CliBody

SpecBoot == InitBoot /\ [][NextBoot]_vars

\* ------------------------------------------------------------------ claims: generateStory

\* the text fragments of all parts of the chunks, in stream order
RECURSIVE AllTextFragments(_)
AllTextFragments(chunks) ==
    IF chunks = <<>> THEN <<>>
    ELSE LET c == Head(chunks)
         IN  (IF c.candidates = "parts" /\ "text" \in DOMAIN c.part
              THEN <<c.part.text>> ELSE <<>>)
             \o (IF c.candidates = "parts" /\ "second" \in DOMAIN c /\ "text" \in DOMAIN c.second
                 THEN <<c.second.text>> ELSE <<>>)
             \o AllTextFragments(Tail(chunks))

\* the text fragments of the first part of each chunk, in stream order
RECURSIVE TextFragments(_)
TextFragments(chunks) ==
    IF chunks = <<>> THEN <<>>
    ELSE LET c == Head(chunks)
         IN  (IF c.candidates = "parts" /\ "text" \in DOMAIN c.part
              THEN <<c.part.text>> ELSE <<>>) \o TextFragments(Tail(chunks))

RECURSIVE Concatenation(_)
Concatenation(fragments) ==
    IF fragments = <<>> THEN <<>> ELSE Head(fragments) \o Concatenation(Tail(fragments))

IsErrorFallback(s) ==
    \E e \in UpstreamErrors \cup {TypeError("content")} : s = ErrorFallback(e)

Malformed(chunks) == \E i \in 1..Len(chunks) : chunks[i].candidates = "empty"

\* C4 as stated: generateStory returns a non-empty string; the fixed fallback when
\* the stream yields zero text fragments, a fallback embedding the error message when
\* the request or the stream throws (reading a malformed chunk counted as the stream
\* throwing), and otherwise the concatenation, in stream order, of the text
\* fragments of all chunks.
C4_AsStated ==
    result.returned =>
        /\ result.value # <<>>
        /\ IF upstream.kind = "requestThrows" THEN IsErrorFallback(result.value)
           ELSE IF upstream.kind = "streamThrows" \/ Malformed(upstream.chunks)
           THEN IsErrorFallback(result.value)
           ELSE IF AllTextFragments(upstream.chunks) = <<>>
           THEN result.value = FixedFallback
           ELSE result.value = Concatenation(AllTextFragments(upstream.chunks))

\* C4 (amended): generateStory returns a non-empty string: a fallback embedding the
\* error's message when the request throws, when reading a chunk throws (a chunk
\* whose candidates list is empty) or when the stream throws; the fixed fallback
\* when the stream ends and the concatenated text is empty (no text fragment, or
\* only empty ones); and otherwise the concatenation, in stream order, of the text
\* fragments of all chunks, a chunk's text fragment being the text of its first part
\* (later parts are not read).
C4_StoryNeverEmpty ==
    result.returned =>
        /\ result.value # <<>>
        /\ result.value =
             IF upstream.kind = "requestThrows" THEN ErrorFallback(upstream.error)
             ELSE IF Malformed(upstream.chunks) THEN ErrorFallback(TypeError("content"))
             ELSE IF upstream.kind = "streamThrows" THEN ErrorFallback(upstream.error)
             ELSE IF Concatenation(TextFragments(upstream.chunks)) = <<>> THEN FixedFallback
             ELSE Concatenation(TextFragments(upstream.chunks))

\* two different fragments were concatenated in stream order
C4_Witness ==
    /\ result.returned
    /\ upstream.kind = "ends"
    /\ TextFragments(upstream.chunks) = <<<<"A">>, <<"B">>>>
    /\ result.value = <<"A", "B">>

\* ------------------------------------------------------------------ claims: the handler

Attempts(kind) == SelectSeq(log, LAMBDA x : x.op = "attempt" /\ x.kind = kind)

OkAttempts(kind) == SelectSeq(Attempts(kind), LAMBDA x : x.ok)

\* the directory the save mode selects
SaveModeDir == IF procEnv.SAVE_TO_DESKTOP = "true" THEN DesktopSaveDir ELSE LocalSaveDir

\* the current invocation is of the storybook tool and lacks prompt or fileName
MissingRequired ==
    /\ inv > 0
    /\ tool = ToolName
    /\ args = NoArguments \/ ~Has(args, "prompt") \/ ~Has(args, "fileName")

\* C1 as stated: an invocation that lacks prompt or fileName issues no story request
\* and no image request and writes no file, and it ends with a protocol error.
C1_ValidationFirst ==
    MissingRequired =>
        /\ Entries("storyRequest") = <<>>
        /\ Entries("imageRequest") = <<>>
        /\ Entries("attempt") = <<>>
        /\ pc = "done" => response.kind = "error"

\* C9 as stated: the art style of every image prompt is a member of the enum of
\* the input schema.
C9_StyleInEnum ==
    \A i \in 1..Len(log) :
        log[i].op = "imageRequest" => log[i].prompt.style \in ArtStyleEnum

\* the value the handler threw (the log's last entry when the handler failed)
Thrown == log[Len(log)]

IsSuccess(r) ==
    /\ DOMAIN r = {"kind", "success", "imagePath", "storyPath", "htmlPath"}
    /\ r.kind = "result"
    /\ r.success
    /\ r.imagePath # NoPath /\ r.storyPath # NoPath /\ r.htmlPath # NoPath

IsError(r) ==
    /\ DOMAIN r = {"kind", "code", "message"}
    /\ r.kind = "error"
    /\ r.code = "InternalError"

UnknownErrorText == <<"MCP error InternalError: ", "An unknown error occurred">>

NoImageText == <<"No image data received from the API">>

\* C3: when the image stream ends without an inline payload, the invocation ends
\* with a protocol error whose message names the missing image data (and no other
\* failure produces that message), no image or preview write was attempted, and the
\* story file written by this invocation is on disk.
C3_NoImageData ==
    pc = "done" =>
        /\ Entries("streamEnd") # <<>> =>
              /\ IsError(response)
              /\ Contains(response.message, NoImageText)
              /\ Attempts("image") = <<>>
              /\ Attempts("preview") = <<>>
              /\ {f \in files : f.by = inv} = {[path |-> storyPath, by |-> inv]}
              /\ storyPath.name = StoryFileName(args.fileName)
        /\ (response.kind = "error" /\ Contains(response.message, NoImageText)) =>
              Entries("streamEnd") # <<>>

\* the stream yielded a chunk without payload and ended
C3_Witness ==
    /\ pc = "done"
    /\ Entries("streamEnd") # <<>>
    /\ Len(imgSeen) > 0
    /\ [path |-> storyPath, by |-> inv] \in files
    /\ response.kind = "error"

\* the attempts of one payload follow the fallback rule: the first goes to the
\* save-mode directory, a second is made exactly when the first failed, and it goes
\* to the fallback directory with the same file name
FallbackRule(a) ==
    /\ Len(a) <= 2
    /\ Len(a) >= 1 => a[1].dir = SaveModeDir
    /\ Len(a) >= 1 => (Len(a) = 2 <=> ~a[1].ok)
    /\ Len(a) = 2 => a[2].dir = FallbackDir /\ a[2].name = a[1].name

\* both attempts of a payload failed
BothFailed(a) == Len(a) = 2 /\ ~a[2].ok

\* the path of the file the attempts a produced
SavedBy(a) == Join(a[Len(a)].dir, a[Len(a)].name)

\* C6: each payload (story text, image bytes) is attempted under the save-mode
\* directory first; exactly one further attempt, to the 'output' directory, is made
\* when that attempt fails (in creating the directory or in writing) and none when
\* it succeeds; when the fallback succeeds its path is the savedPath and the
\* invocation goes on, and when it fails too the invocation ends with a protocol
\* error carrying the file system's message.
C6_OneFallbackAttempt ==
    /\ FallbackRule(Attempts("story"))
    /\ FallbackRule(Attempts("image"))
    /\ \A kind \in {"story", "image"} :
         BothFailed(Attempts(kind)) =>
            /\ pc = "done"
            /\ IsError(response)
            /\ Contains(response.message, WriteError.text)
            /\ \A f \in files : f.by = inv => f.path.name # Attempts(kind)[1].name
    /\ OkAttempts("story") # <<>> =>
         /\ storyPath = SavedBy(Attempts("story"))
         /\ pc = "imageRequest" \/ Entries("imageRequest") # <<>>
    /\ OkAttempts("image") # <<>> =>
         /\ savedPath = SavedBy(Attempts("image"))
         /\ pc = "writePreview" \/ Attempts("preview") # <<>>

\* the story and the image were both saved by the fallback attempt, and the
\* invocation succeeded
C6_Witness ==
    /\ pc = "done"
    /\ IsSuccess(response)
    /\ Len(Attempts("story")) = 2
    /\ Len(Attempts("image")) = 2
    /\ response.storyPath.dir = FallbackDir
    /\ response.imagePath.dir = FallbackDir

\* C7: once the story, the image and the preview are written, the invocation reports
\* success with the paths of these three files, whatever the opener did; the
\* external command is run exactly once, except in a headless environment (DISPLAY
\* unset, platform neither win32 nor darwin), where it is not run at all.
C7_OpenNeverChangesResult ==
    (pc = "done" /\ OkAttempts("preview") # <<>>) =>
        /\ IsSuccess(response)
        /\ response.imagePath = SavedBy(Attempts("image"))
        /\ response.storyPath = SavedBy(Attempts("story"))
        /\ response.htmlPath = SavedBy(Attempts("preview"))
        /\ Len(Entries("open")) = 1
        /\ LET open == Entries("open")[1]
           IN  IF ~open.display /\ open.platform \notin {"win32", "darwin"}
               THEN Entries("exec") = <<>>
               ELSE Len(Entries("exec")) = 1

\* the external command failed and the invocation succeeded
C7_Witness ==
    /\ pc = "done"
    /\ Entries("exec") # <<>>
    /\ ~Entries("exec")[1].ok
    /\ IsSuccess(response)

\* the current invocation has a prompt and a fileName and has finished
ValidAndDone ==
    /\ pc = "done"
    /\ tool = ToolName
    /\ args # NoArguments
    /\ Has(args, "prompt") /\ Has(args, "fileName")

\* the image stream yielded a chunk with an inline payload
ImageGenerated == \E i \in 1..Len(imgSeen) : HasInlineData(imgSeen[i])

\* C8 as stated: a finished invocation with prompt and fileName created exactly one
\* story file and, when the image was generated, exactly one image file and one
\* preview file, each under the directory the save mode selects.
C8_AsStated ==
    ValidAndDone =>
        /\ Len(OkAttempts("story")) = 1
        /\ OkAttempts("story")[1].dir = SaveModeDir
        /\ ImageGenerated =>
              /\ Len(OkAttempts("image")) = 1
              /\ OkAttempts("image")[1].dir = SaveModeDir
              /\ Len(OkAttempts("preview")) = 1
              /\ OkAttempts("preview")[1].dir = SaveModeDir

\* kind's file was created once, under the save-mode directory if the first attempt
\* succeeded and under the fallback directory otherwise, unless both attempts failed
CreatedOnce(kind) ==
    LET a == Attempts(kind)
        ok == OkAttempts(kind)
    IN  /\ Len(a) >= 1
        /\ IF BothFailed(a) THEN ok = <<>>
           ELSE /\ Len(ok) = 1
                /\ ok[1].dir = IF Len(a) = 1 THEN SaveModeDir ELSE FallbackDir
                /\ [path |-> Join(ok[1].dir, ok[1].name), by |-> inv] \in files

\* C8 (amended): a finished invocation with prompt and fileName created exactly one
\* story file, unless both the primary and the fallback write failed (then none);
\* when the image was generated (and the story saved) it created exactly one image
\* file, unless both writes failed, and exactly one preview file when the image was
\* saved and the preview write succeeded.  The story and the image lie under the
\* directory the save mode selects when their first write succeeded and under the
\* 'output' directory when only the fallback write succeeded; the preview lies in
\* the image's directory.
C8_FilesCreated ==
    ValidAndDone =>
        /\ CreatedOnce("story")
        /\ ImageGenerated =>
              /\ CreatedOnce("image")
              /\ Len(Attempts("preview")) = Len(OkAttempts("image"))
              /\ Len(OkAttempts("preview")) <= 1
              /\ \A i \in 1..Len(OkAttempts("preview")) :
                    /\ OkAttempts("preview")[i].dir = OkAttempts("image")[1].dir
                    /\ [path |-> htmlPath, by |-> inv] \in files
              /\ IsSuccess(response) <=> Len(OkAttempts("preview")) = 1
        /\ ~ImageGenerated => Attempts("image") = <<>> /\ Attempts("preview") = <<>>

\* the story went to the fallback directory, the image and the preview to the
\* desktop directory
C8_Witness ==
    /\ ValidAndDone
    /\ IsSuccess(response)
    /\ procEnv.SAVE_TO_DESKTOP = "true"
    /\ response.storyPath.dir = FallbackDir
    /\ response.imagePath.dir = DesktopSaveDir
    /\ response.htmlPath.dir = DesktopSaveDir

\* this invocation and the previous one succeeded with the same fileName
SameNameTwice ==
    /\ pc = "done"
    /\ IsSuccess(response)
    /\ prev.succeeded
    /\ prev.fileName = args.fileName

\* C5 as stated: of two successful back-to-back invocations with the same fileName,
\* the second leaves the first's image file in place (the image file names differ)
\* and overwrites the first's story file.
C5_AsStated ==
    SameNameTwice =>
        /\ outputFileName # prev.outputFileName
        /\ [path |-> prev.savedPath, by |-> inv - 1] \in files
        /\ [path |-> prev.storyPath, by |-> inv] \in files

\* the piece of an image file name where the timestamp stands
Stamp(name) == name[Len(name) - 1]

\* C5 (amended): of two successful back-to-back invocations with the same fileName,
\* the image file names differ exactly when the fileName does not end in '.png' and
\* the two timestamps differ (a fileName ending in '.png' is used as it is, without
\* a timestamp); the second invocation leaves the first's image file in place when
\* the two image paths differ and overwrites it when they are equal.  The story file
\* names are equal, and the second invocation overwrites the first's story file
\* when both stories were saved in the same directory (it leaves it in place when
\* one of the two was saved by the fallback write and the other was not).
C5_ImageKeptStoryOverwritten ==
    SameNameTwice =>
        /\ IF EndsWithPng(args.fileName)
           THEN outputFileName = args.fileName /\ prev.outputFileName = args.fileName
           ELSE /\ \E t \in Times :
                     outputFileName = args.fileName \o <<"_">> \o Timestamp(t) \o <<".png">>
                /\ outputFileName # prev.outputFileName
                      <=> Stamp(outputFileName) # Stamp(prev.outputFileName)
        /\ [path |-> prev.savedPath, by |-> IF savedPath = prev.savedPath THEN inv ELSE inv - 1]
              \in files
        /\ storyPath.name = prev.storyPath.name
        /\ [path |-> prev.storyPath, by |-> IF storyPath.dir = prev.storyPath.dir THEN inv ELSE inv - 1]
              \in files

\* the second image has another timestamp: the first's image is still the first's,
\* and its story file is now the second's
C5_Witness ==
    /\ SameNameTwice
    /\ outputFileName # prev.outputFileName
    /\ savedPath.dir = prev.savedPath.dir
    /\ [path |-> prev.savedPath, by |-> inv - 1] \in files
    /\ [path |-> prev.storyPath, by |-> inv] \in files

\* ------------------------------------------------------------------ claims: bootstrap

\* the value of an environment variable as the server process finds it (the
\* launched process's environment, completed by the .env file)
EnvValue(k) == DotenvConfig(boot.env, boot.dotenv)[k]

\* C10 as stated: once the server serves, its save-to-desktop and debug settings
\* equal the CLI flag when the flag is passed, and the environment variable's value
\* otherwise.
C10_FlagsOverrideEnv ==
    boot.phase = "serving" =>
        /\ (procEnv.SAVE_TO_DESKTOP = "true") =
              (IF boot.argv.saveToDesktop THEN TRUE ELSE EnvValue("SAVE_TO_DESKTOP") = "true")
        /\ boot.DEBUG = (IF boot.argv.debug THEN TRUE ELSE EnvValue("DEBUG") = "true")

\* the process was started with --api-key <key>
KeyOnCommandLine == boot.argv.apiKey # Unset

\* C11 as stated: for every launcher, once the server serves, the client's API key
\* is the key of the command line when --api-key is passed and the GEMINI_API_KEY
\* environment variable otherwise; when neither is available and no help is asked
\* for, the handler never becomes reachable and the process exits with a non-zero
\* code; and the process never exits for a missing key when a key was passed on the
\* command line.
C11_ApiKeyPrecedence ==
    /\ boot.phase \in {"cliBody", "serving"} =>
          /\ boot.API_KEY =
                (IF KeyOnCommandLine THEN boot.argv.apiKey ELSE EnvValue("GEMINI_API_KEY"))
          /\ ~(~KeyOnCommandLine /\ EnvValue("GEMINI_API_KEY") = Unset /\ ~boot.argv.help)
    /\ (boot.phase = "exited" /\ boot.exitCode = "1") => ~KeyOnCommandLine

\* ------------------------------------------------------------------ claims: the image stream

\* the chunk contains an inline payload, in whichever of its parts
ContainsPayload(chunk) ==
    /\ chunk.candidates = "parts"
    /\ \/ "inlineData" \in DOMAIN chunk.part
       \/ "second" \in DOMAIN chunk /\ "inlineData" \in DOMAIN chunk.second

\* the inline payload of a chunk that contains one
PayloadOf(chunk) ==
    IF "inlineData" \in DOMAIN chunk.part THEN chunk.part.inlineData.data
    ELSE chunk.second.inlineData.data

\* C12 as stated: the first chunk, in stream order, that contains an inline payload
\* ends the loop: no further chunk is consumed after it, the image written is
\* decoded from its payload, and at most one image file and one preview file are
\* written per invocation.
C12_FirstFoundWins ==
    /\ \A i \in 1..Len(imgSeen) :
         ContainsPayload(imgSeen[i]) =>
            /\ i = Len(imgSeen)
            /\ pc # "imageLoop"
            /\ pc # "saveImage" => Attempts("image") # <<>>
            /\ \A j \in 1..Len(Attempts("image")) :
                  Attempts("image")[j].buffer = Base64Decode(PayloadOf(imgSeen[i]))
    /\ Len(OkAttempts("image")) <= 1
    /\ Len(OkAttempts("preview")) <= 1

\* ------------------------------------------------------------------ claims: the order of steps

\* the place of a log entry in the order of the steps
Rank(e) ==
    CASE e.op = "storyRequest" -> 1
      [] e.op = "attempt" /\ e.kind = "story" -> 2
      [] e.op = "imageRequest" -> 3
      [] e.op = "streamEnd" -> 4
      [] e.op = "attempt" /\ e.kind = "image" -> 4
      [] e.op = "attempt" /\ e.kind = "preview" -> 5
      [] e.op = "open" -> 6
      [] e.op = "exec" -> 7
      [] e.op = "return" -> 8
      [] e.op = "threw" -> 9

\* the invocation is of the storybook tool with an arguments object, and its
\* story step is over
PastStoryStep ==
    /\ inv > 0
    /\ tool = ToolName
    /\ args # NoArguments
    /\ pc # "generateStory"

\* C13: within one invocation the steps happen in the order story request, story
\* write, image request, image write, preview write, open attempt, response (or
\* the error, after which nothing happens); only a file write is repeated, once, as
\* the fallback attempt; an invocation that reaches the story step makes exactly one
\* story request and at most one image request; the image request is issued only
\* once the story file is on disk; a successful invocation went through every step.
C13_FixedOrder ==
    /\ \A i, j \in 1..Len(log) :
         i < j =>
            /\ Rank(log[i]) <= Rank(log[j])
            /\ Rank(log[i]) = Rank(log[j]) => log[i].op = "attempt" /\ log[j].op = "attempt"
    /\ Len(Entries("storyRequest")) <= 1
    /\ Len(Entries("imageRequest")) <= 1
    /\ PastStoryStep => Len(Entries("storyRequest")) = 1
    /\ Entries("imageRequest") # <<>> =>
          /\ OkAttempts("story") # <<>>
          /\ [path |-> storyPath, by |-> inv] \in files
    /\ Entries("threw") # <<>> => pc = "done" /\ response.kind = "error"
    /\ (pc = "done" /\ response.kind = "result") =>
          /\ {Rank(log[i]) : i \in 1..Len(log)} \in {{1, 2, 3, 4, 5, 6, 8}, {1, 2, 3, 4, 5, 6, 7, 8}}
          /\ Len(OkAttempts("story")) = 1
          /\ Len(OkAttempts("image")) = 1
          /\ Len(OkAttempts("preview")) = 1

\* a successful invocation without any fallback write: the eight steps, in order
C13_Witness ==
    /\ pc = "done"
    /\ response.kind = "result"
    /\ [i \in 1..Len(log) |-> Rank(log[i])] = <<1, 2, 3, 4, 5, 6, 7, 8>>

====
